---- MODULE Spec2Model ----
(***************************************************************************)
(* Chatbot flow builder: the zustand flow store (src/src/store/flowStore.ts)*)
(* and the FlowBuilder controller (src/src/nodes/TextMessageNode.tsx).      *)
(*                                                                         *)
(* Strings of message content are sequences of one-character strings, so   *)
(* that String.prototype.trim is computed and not assumed.  The JavaScript  *)
(* values null and undefined are the two distinct constants Null and        *)
(* Undefined.  crypto.randomUUID() is a fresh identifier: the n-th         *)
(* identifier handed out is built from a counter that never repeats.       *)
(***************************************************************************)
EXTENDS Integers, Sequences, FiniteSets, TLC

VARIABLES
    nodes,              \* store.nodes: sequence of Node records
    edges,              \* store.edges: sequence of Edge records
    selectedNodeId,     \* store.selectedNodeId: a node id or Null
    reactFlowInstance,  \* FlowBuilder's ref: Null until onInit, then "instance"
    toast,              \* what the most recent handler passed to the notification surface
    lastConnection,     \* <<c>>: the most recent handler was handleConnect(c); else <<>>
    nodeSeq,            \* how many node ids have been handed out
    edgeSeq             \* how many edge ids have been generated

vars == <<nodes, edges, selectedNodeId, reactFlowInstance, toast, lastConnection,
          nodeSeq, edgeSeq>>

store == <<nodes, edges, selectedNodeId>>

----------------------------------------------------------------------------
(* Bounds of the model *)

MaxNodes == 2    \* node ids ever handed out, the initial node included
MaxEdges == 2    \* edge ids ever generated
ManyNodes == 3   \* node ids ever handed out in the specifications that need a third node

----------------------------------------------------------------------------
(* JavaScript values *)

Null == "null"
Undefined == "undefined"

\* !v for the string-or-null values the handlers test
Falsy(v) == v \in {Null, Undefined, ""}

\* v ?? undefined
OrUndefined(v) == IF v \in {Null, Undefined} THEN Undefined ELSE v

IsSpace(c) == c = " "

RECURSIVE TrimStart(_)
TrimStart(s) ==
    IF s = <<>> THEN <<>>
    ELSE IF IsSpace(Head(s)) THEN TrimStart(Tail(s)) ELSE s

RECURSIVE TrimEnd(_)
TrimEnd(s) ==
    IF s = <<>> THEN <<>>
    ELSE IF IsSpace(s[Len(s)]) THEN TrimEnd(SubSeq(s, 1, Len(s) - 1)) ELSE s

\* String.prototype.trim
Trim(s) == TrimEnd(TrimStart(s))

----------------------------------------------------------------------------
(* Data of the flow *)

NodeType == "textMessage"

InitialContent == <<"H", "e", "l", "l", "o", "!">>
DefaultContent == <<"N", "e", "w">>

InitialPosition == [x |-> 250, y |-> 80]

initialNodes ==
    << [id |-> "node-1", type |-> NodeType, position |-> InitialPosition,
        data |-> [content |-> InitialContent]] >>

initialEdges == <<>>

\* crypto.randomUUID(): the k-th identifier of its kind
NodeIdOf(k) == IF k = 1 THEN "node-1" ELSE "n" \o ToString(k)
EdgeIdOf(k) == "e" \o ToString(k)

IssuedNodeIds == {NodeIdOf(k) : k \in 1..nodeSeq}
IssuedEdgeIds == {EdgeIdOf(k) : k \in 1..edgeSeq}

NodeIds(ns) == {ns[i].id : i \in DOMAIN ns}

\* What the user may type into the properties panel
TypedContents == { <<>>, <<" ", " ">>, <<" ", "o", "k", " ">> }

\* Where the rendering surface may put a node
Positions == { InitialPosition, [x |-> 0, y |-> 0] }

SourceHandles == {Null, "a"}
TargetHandles == {Null}

\* Connection objects the rendering surface can hand to the controller
Connections ==
    [source : IssuedNodeIds \cup {Null}, target : IssuedNodeIds \cup {Null},
     sourceHandle : SourceHandles, targetHandle : TargetHandles]

----------------------------------------------------------------------------
(* Notifications *)

NoToast == "none"
WarnBranch == "Each message can branch to only one next step."
ErrNoNodes == "Add at least one node before saving."
ErrStart == "Only one starting node is allowed. Connect your flow before saving."
ErrContent == "Every node needs message content before saving."
SavedOk == "Flow saved successfully!"

----------------------------------------------------------------------------
(* reactflow helpers the store delegates to *)

\* applyChanges, for one element: the changes addressed to it, in batch order
RECURSIVE ApplyItemChanges(_, _)
ApplyItemChanges(changes, item) ==
    IF changes = <<>> THEN <<item>>
    ELSE LET c == Head(changes) IN
         IF c.id # item.id THEN ApplyItemChanges(Tail(changes), item)
         ELSE IF c.type = "remove" THEN <<>>
         ELSE IF c.type = "position"
              THEN ApplyItemChanges(Tail(changes), [item EXCEPT !.position = c.position])
         ELSE ApplyItemChanges(Tail(changes), item)

RECURSIVE ApplyChanges(_, _)
ApplyChanges(changes, elements) ==
    IF elements = <<>> THEN <<>>
    ELSE ApplyItemChanges(changes, Head(elements)) \o ApplyChanges(changes, Tail(elements))

applyNodeChanges(changes, ns) == ApplyChanges(changes, ns)

applyEdgeChanges(changes, es) == ApplyChanges(changes, es)

connectionExists(edge, es) ==
    \E i \in DOMAIN es :
        /\ es[i].source = edge.source
        /\ es[i].target = edge.target
        /\ \/ es[i].sourceHandle = edge.sourceHandle
           \/ Falsy(es[i].sourceHandle) /\ Falsy(edge.sourceHandle)
        /\ \/ es[i].targetHandle = edge.targetHandle
           \/ Falsy(es[i].targetHandle) /\ Falsy(edge.targetHandle)

addReactFlowEdge(edgeParams, es) ==
    IF Falsy(edgeParams.source) \/ Falsy(edgeParams.target) THEN es
    ELSE IF connectionExists(edgeParams, es) THEN es
    ELSE es \o <<edgeParams>>

----------------------------------------------------------------------------
(* Flow State Store: each operation is one set(...) on the store *)

setSelectedNodeId(nodeId) ==
    /\ selectedNodeId' = nodeId
    /\ UNCHANGED <<nodes, edges>>

\* addNode, had it appended the node without selecting it
addNode_keepsSelection(node) ==
    /\ nodes' = nodes \o <<node>>
    /\ UNCHANGED <<selectedNodeId, edges>>

addNode(node) ==
    /\ nodes' = nodes \o <<node>>
    /\ selectedNodeId' = node.id
    /\ UNCHANGED edges

\* { ...a, ...b }
Spread(a, b) ==
    [k \in DOMAIN a \cup DOMAIN b |-> IF k \in DOMAIN b THEN b[k] ELSE a[k]]

\* updateNodeData, had it merged the data into every node
updateNodeData_everyNode(nodeId, data) ==
    /\ nodes' = [i \in DOMAIN nodes |-> [nodes[i] EXCEPT !.data = Spread(@, data)]]
    /\ UNCHANGED <<edges, selectedNodeId>>

updateNodeData(nodeId, data) ==
    /\ nodes' = [i \in DOMAIN nodes |->
                    IF nodes[i].id = nodeId
                    THEN [nodes[i] EXCEPT !.data = Spread(@, data)]
                    ELSE nodes[i]]
    /\ UNCHANGED <<edges, selectedNodeId>>

onNodesChange(changes) ==
    /\ nodes' = applyNodeChanges(changes, nodes)
    /\ UNCHANGED <<edges, selectedNodeId>>

onEdgesChange(changes) ==
    /\ edges' = applyEdgeChanges(changes, edges)
    /\ UNCHANGED <<nodes, selectedNodeId>>

\* addEdge, had it overwritten the edge collection with the new edge
addEdge_replaces(edge) ==
    /\ edges' = <<edge>>
    /\ UNCHANGED <<nodes, selectedNodeId>>

addEdge(edge) ==
    /\ edges' = addReactFlowEdge(edge, edges)
    /\ UNCHANGED <<nodes, selectedNodeId>>

----------------------------------------------------------------------------
(* Flow Editor Controller *)

\* useMemo: nodes.find(...) ?? null, as a sequence: <<the node>>, or <<>> for null
selectedNode ==
    LET found == SelectSeq(nodes, LAMBDA node : node.id = selectedNodeId)
    IN  IF found = <<>> THEN <<>> ELSE <<Head(found)>>

\* canConnect without the test source === target
canConnect_allowsSelfLoop(connection) ==
    /\ ~Falsy(connection.source)
    /\ ~\E i \in DOMAIN edges :
            /\ edges[i].source = connection.source
            /\ \/ Falsy(connection.sourceHandle)
               \/ edges[i].sourceHandle = connection.sourceHandle

\* canConnect without the test for an existing edge
canConnect_allowsSecondBranch(connection) ==
    /\ ~Falsy(connection.source)
    /\ connection.source # connection.target

\* canConnect, had it also refused a target that already has an incoming edge
canConnect_oneIncoming(connection) ==
    /\ ~Falsy(connection.source)
    /\ ~\E i \in DOMAIN edges :
            /\ edges[i].source = connection.source
            /\ \/ Falsy(connection.sourceHandle)
               \/ edges[i].sourceHandle = connection.sourceHandle
    /\ connection.source # connection.target
    /\ ~\E i \in DOMAIN edges : edges[i].target = connection.target

canConnect(connection) ==
    IF Falsy(connection.source) THEN FALSE
    ELSE IF \E i \in DOMAIN edges :
                /\ edges[i].source = connection.source
                /\ \/ Falsy(connection.sourceHandle)
                   \/ edges[i].sourceHandle = connection.sourceHandle
         THEN FALSE
    ELSE IF connection.source = connection.target THEN FALSE
    ELSE TRUE

\* The Edge handleConnect builds; type, markerEnd and style are presentation only
NewEdge(id, connection) ==
    [id |-> id,
     source |-> connection.source,
     target |-> connection.target,
     sourceHandle |-> OrUndefined(connection.sourceHandle),
     targetHandle |-> OrUndefined(connection.targetHandle)]

handleConnect(connection) ==
    /\ lastConnection' = <<connection>>
    /\ UNCHANGED <<reactFlowInstance, nodeSeq>>
    /\ IF ~canConnect(connection)
       THEN /\ toast' = WarnBranch
            /\ UNCHANGED <<store, edgeSeq>>
       ELSE IF Falsy(connection.source) \/ Falsy(connection.target)
       THEN /\ toast' = NoToast
            /\ UNCHANGED <<store, edgeSeq>>
       ELSE /\ edgeSeq' = edgeSeq + 1
            /\ addEdge(NewEdge(EdgeIdOf(edgeSeq + 1), connection))
            /\ toast' = NoToast

onInit ==
    /\ reactFlowInstance = Null
    /\ reactFlowInstance' = "instance"
    /\ toast' = NoToast
    /\ lastConnection' = <<>>
    /\ UNCHANGED <<store, nodeSeq, edgeSeq>>

\* type is what the drag carried; position is project(...) of the drop point
handleDrop(type, position) ==
    /\ lastConnection' = <<>>
    /\ toast' = NoToast
    /\ UNCHANGED <<reactFlowInstance, edgeSeq>>
    /\ IF type = "" \/ reactFlowInstance = Null
       THEN UNCHANGED <<store, nodeSeq>>
       ELSE /\ nodeSeq' = nodeSeq + 1
            /\ addNode([id |-> NodeIdOf(nodeSeq + 1), type |-> type,
                        position |-> position,
                        data |-> [content |-> DefaultContent]])

\* selection is the list of node ids the rendering surface reports as selected
handleSelectionChange(selection) ==
    /\ setSelectedNodeId(IF selection = <<>> THEN Null ELSE selection[1])
    /\ toast' = NoToast
    /\ lastConnection' = <<>>
    /\ UNCHANGED <<reactFlowInstance, nodeSeq, edgeSeq>>

handlePaneClick ==
    /\ setSelectedNodeId(Null)
    /\ toast' = NoToast
    /\ lastConnection' = <<>>
    /\ UNCHANGED <<reactFlowInstance, nodeSeq, edgeSeq>>

nodesWithoutIncomingEdge ==
    SelectSeq(nodes, LAMBDA node : ~\E i \in DOMAIN edges : edges[i].target = node.id)

nodesWithoutMessage ==
    SelectSeq(nodes, LAMBDA node :
        node.data.content = <<>> \/ Trim(node.data.content) = <<>>)

\* handleSave, had it checked the content before the start nodes
SaveOutcome_contentFirst ==
    IF Len(nodes) = 0 THEN ErrNoNodes
    ELSE IF Len(nodesWithoutMessage) > 0 THEN ErrContent
    ELSE IF Len(nodesWithoutIncomingEdge) > 1 THEN ErrStart
    ELSE SavedOk

\* the toast handleSave ends with
SaveOutcome ==
    IF Len(nodes) = 0 THEN ErrNoNodes
    ELSE IF Len(nodesWithoutIncomingEdge) > 1 THEN ErrStart
    ELSE IF Len(nodesWithoutMessage) > 0 THEN ErrContent
    ELSE SavedOk

handleSave ==
    /\ toast' = SaveOutcome
    /\ lastConnection' = <<>>
    /\ UNCHANGED <<store, reactFlowInstance, nodeSeq, edgeSeq>>

\* NodePropertiesPanel.onChange, shown only while selectedNode is found
panelChange(value) ==
    /\ selectedNode # <<>>
    /\ updateNodeData(selectedNode[1].id, [content |-> value])
    /\ toast' = NoToast
    /\ lastConnection' = <<>>
    /\ UNCHANGED <<reactFlowInstance, nodeSeq, edgeSeq>>

\* NodePropertiesPanel.onClose
panelClose ==
    /\ selectedNode # <<>>
    /\ setSelectedNodeId(Null)
    /\ toast' = NoToast
    /\ lastConnection' = <<>>
    /\ UNCHANGED <<reactFlowInstance, nodeSeq, edgeSeq>>

----------------------------------------------------------------------------------------------------------------------------------------
(* The rendering surface and other users of the exported store *)

RemoveNodeChanges == [type : {"remove"}, id : IssuedNodeIds, position : {InitialPosition}]

MoveNodeChanges == [type : {"position"}, id : IssuedNodeIds, position : Positions]

RemoveEdgeChanges == [type : {"remove"}, id : IssuedEdgeIds]

\* the batches of one or two changes drawn from S
Batches(S) == { <<c>> : c \in S } \cup { <<c, d>> : c \in S, d \in S }

nodesChanged(changes) ==
    /\ onNodesChange(changes)
    /\ toast' = NoToast
    /\ lastConnection' = <<>>
    /\ UNCHANGED <<reactFlowInstance, nodeSeq, edgeSeq>>

edgesChanged(changes) ==
    /\ onEdgesChange(changes)
    /\ toast' = NoToast
    /\ lastConnection' = <<>>
    /\ UNCHANGED <<reactFlowInstance, nodeSeq, edgeSeq>>

\* Partial<TextMessageNodeData>: {} or { content }
PartialData == { <<>> } \cup { [content |-> v] : v \in TypedContents }

\* a direct call of the exported store's updateNodeData
storeUpdateNodeData(nodeId, data) ==
    /\ updateNodeData(nodeId, data)
    /\ toast' = NoToast
    /\ lastConnection' = <<>>
    /\ UNCHANGED <<reactFlowInstance, nodeSeq, edgeSeq>>

\* Connections a completed drag between two TextMessageNode handles produces:
\* both ends are nodes on the canvas, the handles carry no id, and the
\* rendering surface completes the drag only if isValidConnection accepts it
DragConnections ==
    { c \in [source : NodeIds(nodes), target : NodeIds(nodes),
             sourceHandle : {Null}, targetHandle : {Null}] : canConnect(c) }

----------------------------------------------------------------------------

Init ==
    /\ nodes = initialNodes
    /\ edges = initialEdges
    /\ selectedNodeId = Null
    /\ reactFlowInstance = Null
    /\ toast = NoToast
    /\ lastConnection = <<>>
    /\ nodeSeq = 1
    /\ edgeSeq = 0

\* Connections from one node that was dropped on the canvas to another, from
\* any handle
NodeConnections ==
    { c \in [source : IssuedNodeIds, target : IssuedNodeIds,
             sourceHandle : SourceHandles, targetHandle : TargetHandles] :
          c.source # c.target }

\* The identifier counters are unbounded in the program; each action stops at a bound
Connect == \E c \in Connections : handleConnect(c) /\ edgeSeq' <= MaxEdges
DragConnect == \E c \in DragConnections : handleConnect(c) /\ edgeSeq' <= MaxEdges
ConnectNodes == \E c \in NodeConnections : handleConnect(c) /\ edgeSeq' <= MaxEdges
Drop ==
    \E t \in {"", NodeType}, p \in Positions : handleDrop(t, p) /\ nodeSeq' <= MaxNodes
DropHere ==
    \E t \in {"", NodeType} : handleDrop(t, InitialPosition) /\ nodeSeq' <= MaxNodes
DropMany ==
    \E t \in {"", NodeType} : handleDrop(t, InitialPosition) /\ nodeSeq' <= ManyNodes
Select ==
    \E sel \in {<<>>} \cup UNION { [1..n -> NodeIds(nodes)] : n \in 1..2 } :
        handleSelectionChange(sel)
RemoveNodes == \E cs \in Batches(RemoveNodeChanges) : nodesChanged(cs)
MoveNodes == \E cs \in Batches(MoveNodeChanges) : nodesChanged(cs)
NodesChange ==
    \E cs \in Batches(RemoveNodeChanges \cup MoveNodeChanges) : nodesChanged(cs)
EdgesChange == \E cs \in Batches(RemoveEdgeChanges) : edgesChanged(cs)
PanelChange == \E v \in TypedContents : panelChange(v)
StoreUpdate ==
    \E id \in IssuedNodeIds, d \in PartialData : storeUpdateNodeData(id, d)

\* Every handler, with every input
Next ==
    \/ onInit
    \/ Drop
    \/ Connect
    \/ Select
    \/ handlePaneClick
    \/ NodesChange
    \/ EdgesChange
    \/ PanelChange
    \/ panelClose
    \/ StoreUpdate
    \/ handleSave

Spec == Init /\ [][Next]_vars

\* The graph of the flow: the handlers that add or remove nodes and edges
NextGraph ==
    \/ onInit
    \/ DropHere
    \/ Connect
    \/ EdgesChange

SpecGraph == Init /\ [][NextGraph]_vars

\* Fan-in: more nodes, connected from any handle, edges removable
NextFanIn ==
    \/ onInit
    \/ DropMany
    \/ ConnectNodes
    \/ EdgesChange

SpecFanIn == Init /\ [][NextFanIn]_vars

\* Saving: flows built by dragging on the canvas, edited in the panel, then saved
NextSave ==
    \/ onInit
    \/ DropHere
    \/ DragConnect
    \/ Select
    \/ RemoveNodes
    \/ PanelChange
    \/ handleSave

SpecSave == Init /\ [][NextSave]_vars

\* addNode: nodes dropped next to edges and selections that already exist
NextAdd ==
    \/ onInit
    \/ DropMany
    \/ DragConnect
    \/ Select
    \/ RemoveNodes

SpecAdd == Init /\ [][NextAdd]_vars

\* updateNodeData: called with any id and any partial data
NextUpdate ==
    \/ onInit
    \/ DropHere
    \/ DragConnect
    \/ RemoveNodes
    \/ StoreUpdate

SpecUpdate == Init /\ [][NextUpdate]_vars

----------------------------------------------------------------------------
(* Vocabulary of the properties *)

\* the connection the most recent handler was given, when it was handleConnect;
\* a step is a handleConnect(c) step exactly when lastConnection' = <<c>>, since
\* every other handler leaves <<>> there
Attempt == lastConnection[1]

Connecting == lastConnection # <<>>

OutgoingEdges(es, nodeId) == {i \in DOMAIN es : es[i].source = nodeId}

IncomingEdges(es, nodeId) == {i \in DOMAIN es : es[i].target = nodeId}

\* two source handles name the same connection point; no handle is the implicit one
SameHandle(a, b) == a = b \/ (Falsy(a) /\ Falsy(b))

HasEdgeFrom(es, nodeId, handle) ==
    \E i \in DOMAIN es : es[i].source = nodeId /\ SameHandle(es[i].sourceHandle, handle)

\* es2 is es1 followed by exactly one edge, which runs from source to target
OneEdgeAdded(es1, es2, source, target) ==
    /\ Len(es2) = Len(es1) + 1
    /\ SubSeq(es2, 1, Len(es1)) = es1
    /\ es2[Len(es2)].source = source
    /\ es2[Len(es2)].target = target

StartNodes == {i \in DOMAIN nodes : IncomingEdges(edges, nodes[i].id) = {}}

\* nothing but whitespace
Blank(content) == \A k \in DOMAIN content : content[k] = " "

SomeNodeBlank == \E i \in DOMAIN nodes : Blank(nodes[i].data.content)

SaveToasts == {ErrNoNodes, ErrStart, ErrContent, SavedOk}

----------------------------------------------------------------------------
(* C1: no node is the source of more than one edge of the store, in any    *)
(* state reachable by the controller's gestures.                           *)
C1_OneOutgoingEdgePerNode ==
    \A i \in DOMAIN nodes : Cardinality(OutgoingEdges(edges, nodes[i].id)) <= 1

(* C2: a connect gesture from node N and handle H, when N already has an    *)
(* edge from H, surfaces the branch warning and leaves edges, nodes and the *)
(* selection as they were.                                                  *)
C2_SecondBranchRejected ==
    [][LET c == lastConnection'[1] IN
          ( /\ lastConnection' # <<>>
            /\ c.source \in NodeIds(nodes)
            /\ HasEdgeFrom(edges, c.source, c.sourceHandle) )
          => ( /\ toast' = WarnBranch
               /\ edges' = edges
               /\ nodes' = nodes
               /\ selectedNodeId' = selectedNodeId )]_vars

\* a second edge from a named handle to another node was just refused
C2_Witness ==
    /\ Connecting
    /\ toast = WarnBranch
    /\ Attempt.source \in NodeIds(nodes)
    /\ Attempt.target \in NodeIds(nodes)
    /\ Attempt.source # Attempt.target
    /\ ~Falsy(Attempt.sourceHandle)
    /\ HasEdgeFrom(edges, Attempt.source, Attempt.sourceHandle)

(* C3: canConnect refuses every connection whose source is its target,      *)
(* whatever the edges are, and no edge of the store runs from a node to     *)
(* itself.                                                                  *)
C3_NoSelfLoop ==
    /\ \A c \in Connections : c.source = c.target => ~canConnect(c)
    /\ \A i \in DOMAIN edges : edges[i].source # edges[i].target

\* a self-loop was just refused on a node that has no outgoing edge
C3_Witness ==
    /\ Connecting
    /\ toast = WarnBranch
    /\ Attempt.source \in NodeIds(nodes)
    /\ Attempt.source = Attempt.target
    /\ OutgoingEdges(edges, Attempt.source) = {}
    /\ edges # <<>>

(* C4: after a successful save exactly one node has no incoming edge.       *)
C4_SaveNeedsExactlyOneStart ==
    toast = SavedOk => Cardinality(StartNodes) = 1

(* C5: save reports the error of the first failing check, in the order      *)
(* no nodes, more than one start node, blank content, and reports success   *)
(* only when none of the three fails.                                       *)
C5_SaveReportsFirstFailure ==
    toast \in SaveToasts =>
        /\ nodes = <<>> => toast = ErrNoNodes
        /\ (nodes # <<>> /\ Cardinality(StartNodes) > 1) => toast = ErrStart
        /\ (nodes # <<>> /\ Cardinality(StartNodes) <= 1 /\ SomeNodeBlank)
               => toast = ErrContent
        /\ toast = SavedOk <=>
               (nodes # <<>> /\ Cardinality(StartNodes) <= 1 /\ ~SomeNodeBlank)

\* two disconnected nodes, both blank: the start-node error is the one reported
C5_Witness ==
    /\ toast = ErrStart
    /\ Len(nodes) = 2
    /\ edges = <<>>
    /\ \A i \in DOMAIN nodes : Blank(nodes[i].data.content)

(* C6, as stated: every connection canConnect accepts adds exactly one edge *)
(* with its source and target.                                              *)
C6_AcceptedAlwaysAdds ==
    [][LET c == lastConnection'[1] IN
          (lastConnection' # <<>> /\ canConnect(c))
          => OneEdgeAdded(edges, edges', c.source, c.target)]_vars

(* C6, amended: every connection canConnect accepts and that names a target *)
(* adds exactly one edge with its source and target, and changes neither    *)
(* the nodes nor the selection.                                             *)
C6_AcceptedWithTargetAdds ==
    [][LET c == lastConnection'[1] IN
          (lastConnection' # <<>> /\ canConnect(c) /\ ~Falsy(c.target))
          => ( /\ OneEdgeAdded(edges, edges', c.source, c.target)
               /\ toast' = NoToast
               /\ nodes' = nodes
               /\ selectedNodeId' = selectedNodeId )]_vars

\* an accepted connection was just added behind an edge that was already there
C6_Witness ==
    /\ Connecting
    /\ toast = NoToast
    /\ ~Falsy(Attempt.target)
    /\ Len(edges) >= 2
    /\ edges[Len(edges)].source = Attempt.source
    /\ edges[Len(edges)].target = Attempt.target
    /\ edges[Len(edges)].id = EdgeIdOf(edgeSeq)

(* C7: a connection from a node without outgoing edge to another node on    *)
(* the canvas is accepted and added, however many edges already end at the  *)
(* target.                                                                  *)
C7_FanInAccepted ==
    [][LET c == lastConnection'[1] IN
          ( /\ lastConnection' # <<>>
            /\ c.source \in NodeIds(nodes)
            /\ c.target \in NodeIds(nodes)
            /\ c.source # c.target
            /\ OutgoingEdges(edges, c.source) = {} )
          => ( /\ toast' # WarnBranch
               /\ OneEdgeAdded(edges, edges', c.source, c.target) )]_vars

\* the edge just added is the second one ending at its target
C7_Witness ==
    /\ Connecting
    /\ toast = NoToast
    /\ edges # <<>>
    /\ edges[Len(edges)].id = EdgeIdOf(edgeSeq)
    /\ edges[Len(edges)].source = Attempt.source
    /\ edges[Len(edges)].target = Attempt.target
    /\ Cardinality(OutgoingEdges(edges, Attempt.source)) = 1
    /\ Cardinality(IncomingEdges(edges, Attempt.target)) >= 2
    /\ \A i \in IncomingEdges(edges, Attempt.target) :
          Cardinality(OutgoingEdges(edges, edges[i].source)) = 1

(* C8: whenever the node collection grows, it grows by one node appended at *)
(* the end, that node is the selection in the same step, and the earlier    *)
(* nodes and the edges are unchanged.                                       *)
C8_AddNodeAppendsAndSelects ==
    [][Len(nodes') > Len(nodes)
          => ( /\ Len(nodes') = Len(nodes) + 1
               /\ SubSeq(nodes', 1, Len(nodes)) = nodes
               /\ nodes'[Len(nodes')].id = NodeIdOf(nodeSeq')
               /\ selectedNodeId' = nodes'[Len(nodes')].id
               /\ edges' = edges )]_vars

\* the newest node sits last and is selected, next to earlier nodes and an edge
C8_Witness ==
    /\ Len(nodes) >= 3
    /\ edges # <<>>
    /\ nodes[Len(nodes)].id = NodeIdOf(nodeSeq)
    /\ nodes[Len(nodes)].data.content = DefaultContent
    /\ selectedNodeId = NodeIdOf(nodeSeq)
    /\ edges[1].id = EdgeIdOf(1)
    /\ edges[1].target # NodeIdOf(nodeSeq)

(* C9: updateNodeData(id, data) merges data into the data of the node with  *)
(* that id and changes nothing else: not the other nodes, not that node's   *)
(* id, type or position, not the order or number of nodes, not the edges,   *)
(* not the selection; with no such node the store is unchanged.             *)
C9_UpdateTouchesOnlyData ==
    [][\A id \in IssuedNodeIds, d \in PartialData :
          storeUpdateNodeData(id, d)
          => ( /\ Len(nodes') = Len(nodes)
               /\ \A i \in DOMAIN nodes :
                     /\ nodes[i].id # id => nodes'[i] = nodes[i]
                     /\ nodes'[i].id = nodes[i].id
                     /\ nodes'[i].type = nodes[i].type
                     /\ nodes'[i].position = nodes[i].position
                     /\ nodes[i].id = id =>
                           nodes'[i].data =
                               IF "content" \in DOMAIN d
                               THEN [content |-> d.content]
                               ELSE nodes[i].data
               /\ edges' = edges
               /\ selectedNodeId' = selectedNodeId
               /\ id \notin NodeIds(nodes) => nodes' = nodes )]_vars

\* a node that is not the selected one carries typed content, next to an
\* untouched node and an edge
C9_Witness ==
    /\ Len(nodes) = 2
    /\ edges # <<>>
    /\ nodes[1].data.content \in TypedContents
    /\ nodes[2].data.content = DefaultContent
    /\ selectedNodeId = nodes[2].id

(* C10: the source and the target of every edge are ids of nodes of the     *)
(* node collection.                                                         *)
C10_EdgesReferToNodes ==
    \A i \in DOMAIN edges :
        /\ edges[i].source \in NodeIds(nodes)
        /\ edges[i].target \in NodeIds(nodes)

====
